---- MODULE Spec2Model ----
(***************************************************************************)
(* Health check registry and orchestrator of spec-up-t-healthcheck:        *)
(*   lib/health-check-registry.js      HealthCheckRegistry                 *)
(*   lib/health-check-orchestrator.js  HealthCheckOrchestrator             *)
(*   lib/health-check-utils.js         calculateSummary, isValid...Result  *)
(*                                                                         *)
(* One registry, one orchestrator.  The caller configures the registry     *)
(* (register, unregister, setEnabled, clear, autoDiscover) and then calls  *)
(* runHealthChecks once.  Plug-ins are untrusted: the promise a plug-in    *)
(* returns may resolve to any value, reject, or never settle.              *)
(***************************************************************************)
EXTENDS Integers, Sequences, FiniteSets, TLC

VARIABLES
    checks,         \* registry.checks: Map id -> metadata, as a sequence in insertion order
    categories,     \* registry.categories: Set of category names
    autoDiscovered, \* registry.autoDiscovered
    importFails,    \* environment: built-in modules whose dynamic import() throws
    cli,            \* the check command of the CLI: its exit code, and whether it raised an error
    other,          \* a second runHealthChecks call on the same orchestrator: its own context,
                    \* selection, pending calls and Report
    entriesCache,   \* gitignore check: the module variable entriesCache
    now,            \* gitignore check: what Date.now() returns
    gitignore,      \* gitignore check: position of checkGitignore, the list it validates
                    \* against, and the details of its last result
    thrown,         \* the error the client's last registry call threw: "none" | "duplicate"
    budget,         \* registry calls the caller may still make before runHealthChecks
    pc,             \* "idle" | "seq" | "par" | "done" | "rejected": position of runHealthChecks
    provider,       \* argument of runHealthChecks: "none" (not called yet) | "stub" | "null"
    opts,           \* mergedOptions of the run
    selected,       \* checksToRun, the value of selectChecksToRun
    queue,          \* sequential mode: ids of orderedChecks not yet visited by the loop
    slots,          \* one entry per executeWithTimeout call, in call order
    results,        \* context.results: Map id -> result, as a sequence in insertion order
    failures,       \* context.failures
    reordered,      \* parallel mode: a call settled before a call dispatched earlier did
    report          \* what runHealthChecks resolved to

vars == <<checks, categories, autoDiscovered, importFails, cli, other, entriesCache, now, gitignore,
          thrown, budget, pc, provider, opts, selected, queue, slots, results, failures, reordered,
          report>>

registryVars == <<checks, categories, autoDiscovered>>
runVars == <<pc, provider, opts, selected, queue, slots, results, failures, reordered, report>>
gitignoreVars == <<entriesCache, now, gitignore>>

-----------------------------------------------------------------------------
(* Bounds of the model *)

\* registry calls the caller makes before runHealthChecks
MaxSetupOps == 2
\* rows of autoDiscover's registration table that the model loads, in source order
NumBuiltin == 1

\* the longest array of results given to calculateSummary directly
MaxResults == 40

(* Program constants *)

DEFAULT_PRIORITY == 100
DEFAULT_TIMEOUT == 30000

\* const CACHE_DURATION = 60 * 60 * 1000
CACHE_DURATION == 60 * 60 * 1000

None == "none"

\* an optional number that was not given
Undefined == 0 - 1

HEALTH_CHECK_STATUSES == {"pass", "fail", "warn", "skip"}

-----------------------------------------------------------------------------
(* Identifiers.  String.prototype.localeCompare is modelled by the rank of  *)
(* an id in the collation order of the ids the model uses.                  *)

CollationOrder ==
    <<"a-check", "external-specs-urls", "ghost", "gitignore", "package-json",
      "spec-files", "specs-json", "z-check">>

Rank(id) == CHOOSE i \in 1..Len(CollationOrder) : CollationOrder[i] = id

LocaleCompare(a, b) == Rank(a) - Rank(b)

\* the registrations autoDiscover makes, in the order it makes them; fn names
\* the checkFunction; none gives dependencies or enabled
BuiltinTable ==
    <<[id |-> "package-json", category |-> "configuration", priority |-> 10,
       fn |-> "checkPackageJson", dependencies |-> {}, enabled |-> None],
      [id |-> "spec-files", category |-> "content", priority |-> 20,
       fn |-> "checkSpecFiles", dependencies |-> {}, enabled |-> None],
      [id |-> "specs-json", category |-> "configuration", priority |-> 15,
       fn |-> "checkSpecsJson", dependencies |-> {}, enabled |-> None],
      [id |-> "external-specs-urls", category |-> "external-references", priority |-> 30,
       fn |-> "checkExternalSpecsUrls", dependencies |-> {}, enabled |-> None],
      [id |-> "gitignore", category |-> "configuration", priority |-> 12,
       fn |-> "checkGitignore", dependencies |-> {}, enabled |-> None]>>

BuiltinRows == IF NumBuiltin < Len(BuiltinTable) THEN NumBuiltin ELSE Len(BuiltinTable)

BuiltinIds == {BuiltinTable[i].id : i \in 1..BuiltinRows}

\* metadata objects the caller passes to register() before a run; none gives
\* "enabled", the first gives only the required fields, so the defaults of
\* register() apply, and the second declares the first as its dependency
CallerMetadata ==
    {[id |-> "a-check", category |-> None, priority |-> Undefined,
      fn |-> "checkA", dependencies |-> {}, enabled |-> None],
     [id |-> "z-check", category |-> "configuration", priority |-> 10,
      fn |-> "checkZ", dependencies |-> {"a-check"}, enabled |-> None]}

CallerIds == {m.id : m \in CallerMetadata}

-----------------------------------------------------------------------------
(* Sequence helpers *)

Range(s) == {s[i] : i \in DOMAIN s}

RECURSIVE SelectSeqBy(_, _)
\* Array.prototype.filter with the predicate given as the set of elements kept
SelectSeqBy(s, keep) ==
    IF s = <<>> THEN <<>>
    ELSE (IF Head(s) \in keep THEN <<Head(s)>> ELSE <<>>) \o SelectSeqBy(Tail(s), keep)

RECURSIVE Dedup(_)
\* [...new Set(array)]: first occurrences, in order
Dedup(s) ==
    IF s = <<>> THEN <<>>
    ELSE LET r == Dedup(SubSeq(s, 1, Len(s) - 1))
             x == s[Len(s)]
         IN IF x \in Range(r) THEN r ELSE Append(r, x)

Ids(metas) == [i \in DOMAIN metas |-> metas[i].id]

-----------------------------------------------------------------------------
(* HealthCheckRegistry *)

Has(chk, id) == \E i \in DOMAIN chk : chk[i].id = id

Get(chk, id) == chk[CHOOSE i \in DOMAIN chk : chk[i].id = id]

\* register(): the defaults for optional fields, overridden by the metadata given
FullMetadata(m) ==
    [id           |-> m.id,
     fn           |-> m.fn,
     category     |-> IF m.category = None THEN "general" ELSE m.category,
     priority     |-> IF m.priority = Undefined THEN DEFAULT_PRIORITY ELSE m.priority,
     dependencies |-> m.dependencies,
     enabled      |-> IF m.enabled = None THEN TRUE ELSE m.enabled = "true"]

\* a register without the test for a present id: Map.prototype.set replaces
\* the entry in place
RegisterOverwriting(chk, cats, m) ==
    [threw |-> FALSE,
     checks |-> IF Has(chk, m.id)
                THEN [i \in DOMAIN chk |-> IF chk[i].id = m.id THEN FullMetadata(m) ELSE chk[i]]
                ELSE Append(chk, FullMetadata(m)),
     categories |-> cats \cup {FullMetadata(m).category}]

\* register(metadata) on registry (chk, cats): threw, or the new registry
RegisterIn(chk, cats, m) ==
    IF Has(chk, m.id)
    THEN [threw |-> TRUE, checks |-> chk, categories |-> cats]
    ELSE [threw |-> FALSE,
          checks |-> Append(chk, FullMetadata(m)),
          categories |-> cats \cup {FullMetadata(m).category}]

GetByCategory(chk, category) ==
    SelectSeqBy(chk, {m \in Range(chk) : m.category = category})

\* a comparator that puts the id first
CompareIdFirst(a, b) ==
    IF a.id # b.id THEN LocaleCompare(a.id, b.id)
    ELSE a.priority - b.priority

\* the comparator of getExecutionOrder's sort
CompareChecks(a, b) ==
    IF a.priority # b.priority THEN a.priority - b.priority
    ELSE LocaleCompare(a.id, b.id)

RECURSIVE InsertSorted(_, _)
InsertSorted(sorted, x) ==
    IF sorted = <<>> THEN <<x>>
    ELSE IF CompareChecks(x, Head(sorted)) < 0 THEN <<x>> \o sorted
    ELSE <<Head(sorted)>> \o InsertSorted(Tail(sorted), x)

\* a sort that leaves the array as it is
KeepOrder(s) == s

RECURSIVE SortChecks(_)
\* Array.prototype.sort (stable) under CompareChecks
SortChecks(s) ==
    IF s = <<>> THEN <<>>
    ELSE InsertSorted(SortChecks(SubSeq(s, 1, Len(s) - 1)), s[Len(s)])

RECURSIVE LookupAll(_, _)
\* requestedIds.map(id => this.get(id)).filter(Boolean)
LookupAll(chk, ids) ==
    IF ids = <<>> THEN <<>>
    ELSE (IF Has(chk, Head(ids)) THEN <<Get(chk, Head(ids))>> ELSE <<>>)
         \o LookupAll(chk, Tail(ids))

\* getExecutionOrder(requestedIds); given = FALSE when the argument is omitted
GetExecutionOrder(chk, given, requestedIds) ==
    LET availableChecks == IF given THEN LookupAll(chk, requestedIds) ELSE chk
        enabledChecks == SelectSeqBy(availableChecks, {m \in Range(availableChecks) : m.enabled})
    IN SortChecks(enabledChecks)

RECURSIVE RegisterBuiltins(_, _, _)
\* the register() calls of autoDiscover from table row i on; the first that
\* throws ends them
RegisterBuiltins(i, chk, cats) ==
    IF i > BuiltinRows THEN [threw |-> FALSE, checks |-> chk, categories |-> cats]
    ELSE LET r == RegisterIn(chk, cats, BuiltinTable[i])
         IN IF r.threw THEN r ELSE RegisterBuiltins(i + 1, r.checks, r.categories)

\* an autoDiscover that registers nothing
AutoDiscoverNothing(chk, cats, flag, failing) ==
    [checks |-> chk, categories |-> cats, autoDiscovered |-> TRUE]

\* an autoDiscover without the guard on the autoDiscovered flag
AutoDiscoverUnguarded(chk, cats, flag, failing) ==
    IF failing # {}
    THEN [checks |-> chk, categories |-> cats, autoDiscovered |-> flag]
    ELSE LET r == RegisterBuiltins(1, chk, cats)
         IN [checks |-> r.checks, categories |-> r.categories,
             autoDiscovered |-> flag \/ ~r.threw]

\* autoDiscover() on registry (chk, cats, flag): the new registry
AutoDiscoverIn(chk, cats, flag, failing) ==
    IF flag THEN [checks |-> chk, categories |-> cats, autoDiscovered |-> TRUE]
    ELSE IF failing # {}
    THEN \* an import() threw before any register(): caught and logged
         [checks |-> chk, categories |-> cats, autoDiscovered |-> FALSE]
    ELSE LET r == RegisterBuiltins(1, chk, cats)
         IN [checks |-> r.checks, categories |-> r.categories, autoDiscovered |-> ~r.threw]

-----------------------------------------------------------------------------
(* health-check-utils *)

\* values a plug-in's promise may resolve to.  obj: a non-null object; fields:
\* check, message and timestamp are strings; status: the status field
\* ("undefined" when missing); timestampOk: Date.parse accepts the timestamp;
\* detailsOk: details is absent or a non-null object
PluginValues ==
    {[obj |-> TRUE, fields |-> TRUE, status |-> s, timestampOk |-> TRUE, detailsOk |-> TRUE] :
        s \in HEALTH_CHECK_STATUSES \cup {"error", "undefined"}}
    \cup {[obj |-> FALSE, fields |-> FALSE, status |-> "undefined", timestampOk |-> FALSE, detailsOk |-> TRUE],
          [obj |-> TRUE, fields |-> TRUE, status |-> "pass", timestampOk |-> FALSE, detailsOk |-> TRUE],
          [obj |-> TRUE, fields |-> TRUE, status |-> "warn", timestampOk |-> TRUE, detailsOk |-> FALSE]}

\* a validation without the test of status against HEALTH_CHECK_STATUSES
IsValidWithoutStatusTest(v) ==
    /\ v.obj
    /\ v.fields
    /\ v.status # "undefined"
    /\ v.timestampOk
    /\ v.detailsOk

IsValidHealthCheckResult(v) ==
    /\ v.obj
    /\ v.fields
    /\ v.status # "undefined"
    /\ v.status \in HEALTH_CHECK_STATUSES
    /\ v.timestampOk
    /\ v.detailsOk

CountStatus(rs, s) == Cardinality({i \in DOMAIN rs : rs[i].status = s})

(* The Numbers of JavaScript are IEEE 754 doubles.  A double with a 53-bit    *)
(* significand is kept as a record of limbs: its value is                   *)
(*   (top * 2^52 + c1 * 2^34 + c2 * 2^16 + c3) * 2^(-52 - e),               *)
(* c1 and c2 of 18 bits, c3 of 16; zero has top = 0.  The operators below   *)
(* are exact for 0 <= passed <= total < 2^13.                               *)

\* carries from the low limbs into the high ones
Carry(x) ==
    LET k2 == x.c2 + x.c3 \div 2^16
        k1 == x.c1 + k2 \div 2^18
    IN [e |-> x.e, top |-> x.top + k1 \div 2^18,
        c1 |-> k1 % 2^18, c2 |-> k2 % 2^18, c3 |-> x.c3 % 2^16]

RECURSIVE Exponent(_, _)
\* the e with 1 <= p * 2^e / t < 2, for 0 < p <= t
Exponent(p, t) == IF p >= t THEN 0 ELSE 1 + Exponent(2 * p, t)

\* p / t: the double nearest to the quotient, ties to even
Divide(p, t) ==
    IF p = 0 THEN [e |-> 0, top |-> 0, c1 |-> 0, c2 |-> 0, c3 |-> 0]
    ELSE LET e == Exponent(p, t)
             r0 == p * 2^e - t
             c1 == (r0 * 2^18) \div t
             r1 == (r0 * 2^18) % t
             c2 == (r1 * 2^18) \div t
             r2 == (r1 * 2^18) % t
             c3 == (r2 * 2^16) \div t
             r3 == (r2 * 2^16) % t
             guard == (2 * r3) \div t
             sticky == (2 * r3) % t # 0
             up == guard = 1 /\ (sticky \/ c3 % 2 = 1)
             x == Carry([e |-> e, top |-> 1, c1 |-> c1, c2 |-> c2,
                         c3 |-> c3 + (IF up THEN 1 ELSE 0)])
         IN IF x.top = 2 THEN [e |-> e - 1, top |-> 1, c1 |-> 0, c2 |-> 0, c3 |-> 0]
            ELSE x

\* x * 100: the double nearest to the product, ties to even.  The product has
\* 59 or 60 bits, of which the low 6 or 7 are rounded away; top then holds
\* the bits from 2^52 up.
TimesHundred(x) ==
    IF x.top = 0 THEN x
    ELSE LET p3 == x.c3 * 100
             p2 == x.c2 * 100 + p3 \div 2^16
             p1 == x.c1 * 100 + p2 \div 2^18
             top == x.top * 100 + p1 \div 2^18
             d3 == p3 % 2^16
             unit == IF top >= 128 THEN 2^7 ELSE 2^6
             dropped == d3 % unit
             kept == d3 \div unit
             up == \/ 2 * dropped > unit
                   \/ 2 * dropped = unit /\ kept % 2 = 1
         IN Carry([e |-> x.e, top |-> top, c1 |-> p1 % 2^18, c2 |-> p2 % 2^18,
                   c3 |-> (kept + (IF up THEN 1 ELSE 0)) * unit])

\* Math.round(y): the integer nearest to y, a half rounded up
MathRound(y) ==
    IF y.e = 0 THEN y.top + (IF y.c1 >= 2^17 THEN 1 ELSE 0)
    ELSE (y.top + 2^(y.e - 1)) \div 2^(y.e)

\* Math.round((passed / total) * 100), for every total up to MaxResults
PercentTable ==
    [total \in 1..MaxResults |->
        [passed \in 0..total |-> MathRound(TimesHundred(Divide(passed, total)))]]

\* Math.round((passed / total) * 100)
RoundPercent(passed, total) == PercentTable[total][passed]

\* a summary whose hasErrors is raised by every result that is not a pass
SummaryNonPassIsError(rs) ==
    LET total == Len(rs)
        passed == CountStatus(rs, "pass")
        failed == CountStatus(rs, "fail")
        warnings == CountStatus(rs, "warn")
        skipped == CountStatus(rs, "skip")
    IN [total |-> total, passed |-> passed, failed |-> failed,
        warnings |-> warnings, skipped |-> skipped,
        score |-> IF total > 0 THEN RoundPercent(passed, total) ELSE 0,
        hasErrors |-> passed < total,
        hasWarnings |-> warnings > 0]

CalculateSummary(rs) ==
    LET total == Len(rs)
        passed == CountStatus(rs, "pass")
        failed == CountStatus(rs, "fail")
        warnings == CountStatus(rs, "warn")
        skipped == CountStatus(rs, "skip")
    IN [total |-> total, passed |-> passed, failed |-> failed,
        warnings |-> warnings, skipped |-> skipped,
        score |-> IF total > 0 THEN RoundPercent(passed, total) ELSE 0,
        hasErrors |-> failed > 0,
        hasWarnings |-> warnings > 0]

-----------------------------------------------------------------------------
(* HealthCheckOrchestrator: values *)

\* the settled value of a promise: the result a check resolved to (kind
\* "plugin") or the Error it rejected with (kind names the throw site; ms is
\* the number in the timeout message, 0 in every other message)
NoVal == [status |-> None, kind |-> None, ms |-> 0]

Resolved(status) == [status |-> status, kind |-> "plugin", ms |-> 0]

Rejected(kind) == [status |-> None, kind |-> kind, ms |-> 0]

\* a timeout Error whose message names the default timeout
TimeoutErrorDefault(timeout) == [status |-> None, kind |-> "timeout", ms |-> DEFAULT_TIMEOUT]

\* the Error of executeWithTimeout's timer:
\* "Health check '<id>' timed out after <timeout>ms"
TimeoutError(timeout) == [status |-> None, kind |-> "timeout", ms |-> timeout]

\* a result returned by a plug-in, stored under its check id
PluginResult(id, v) ==
    [id |-> id, status |-> v.status, executionError |-> FALSE, kind |-> "plugin", ms |-> 0]

\* createCheckErrorResult(checkId, error): "Health check execution failed: <error.message>"
CreateCheckErrorResult(id, error) ==
    [id |-> id, status |-> "fail", executionError |-> TRUE, kind |-> error.kind, ms |-> error.ms]

\* Map.prototype.set on a Map kept as a sequence of entries in insertion order
MapSet(m, r) ==
    IF \E i \in DOMAIN m : m[i].id = r.id
    THEN [i \in DOMAIN m |-> IF m[i].id = r.id THEN r ELSE m[i]]
    ELSE Append(m, r)

NoReport == [kind |-> None, results |-> <<>>, summary |-> CalculateSummary(<<>>), error |-> None]

\* a generateReport that reports an orchestration error when a check's result
\* was synthesized from an execution error
GenerateReportFlaggingFailures(res, prov) ==
    IF prov = "null" THEN [threw |-> TRUE, report |-> NoReport]
    ELSE [threw |-> FALSE,
          report |-> [kind |-> "normal", results |-> res, summary |-> CalculateSummary(res),
                      error |-> IF \E k \in DOMAIN res : res[k].executionError
                                THEN "orchestration" ELSE None]]

\* generateReport(context); reading context.provider.type throws on a null provider
GenerateReport(res, prov) ==
    IF prov = "null" THEN [threw |-> TRUE, report |-> NoReport]
    ELSE [threw |-> FALSE,
          report |-> [kind |-> "normal", results |-> res, summary |-> CalculateSummary(res),
                      error |-> None]]

\* createEmptyReport(context)
CreateEmptyReport(prov) ==
    IF prov = "null" THEN [threw |-> TRUE, report |-> NoReport]
    ELSE [threw |-> FALSE,
          report |-> [kind |-> "empty", results |-> <<>>,
                      summary |-> [total |-> 0, passed |-> 0, failed |-> 0, warnings |-> 0,
                                   skipped |-> 0, score |-> 0, hasErrors |-> FALSE,
                                   hasWarnings |-> FALSE],
                      error |-> None]]

\* createErrorReport(context, error)
CreateErrorReport(res, prov) ==
    IF prov = "null" THEN [threw |-> TRUE, report |-> NoReport]
    ELSE [threw |-> FALSE,
          report |-> [kind |-> "error", results |-> res, summary |-> CalculateSummary(res),
                      error |-> "orchestration"]]

\* the catch clause of runHealthChecks around a step of the try block that
\* gave r: where runHealthChecks ends, and with what
Caught(r, res, prov) ==
    IF ~r.threw THEN [pc |-> "done", report |-> r.report]
    ELSE LET e == CreateErrorReport(res, prov)
         IN IF e.threw THEN [pc |-> "rejected", report |-> NoReport]
            ELSE [pc |-> "done", report |-> e.report]

-----------------------------------------------------------------------------
(* HealthCheckOrchestrator: options and selection *)

\* options.checks as given: undefined, an array of ids, or a non-empty string
\* (a value with a length and no filter method)
ChecksInputs ==
    {[kind |-> "undefined", items |-> <<>>],
     [kind |-> "array", items |-> <<>>],
     [kind |-> "array", items |-> <<"a-check", "z-check">>],
     [kind |-> "array", items |-> <<"ghost", "a-check", "a-check">>],
     [kind |-> "string", items |-> <<>>]}

CategoriesInputs ==
    {[kind |-> "undefined", items |-> <<>>],
     [kind |-> "array", items |-> <<"configuration", "content", "configuration">>],
     [kind |-> "array", items |-> <<"content">>]}

Given(list) == list.kind # "undefined" /\ list.items # <<>>

\* the options objects the caller passes: every execution mode with every
\* selection by ids or by categories, one selection that gives both, and a
\* timeout together with checkOptions with a selection by ids
OptionsInputs ==
    {o \in [checks : ChecksInputs, categories : CategoriesInputs,
            continueOnError : {None, "false"}, parallel : {None, "true"},
            timeout : {Undefined, 50}, checkOptions : {None, "given"}] :
        /\ (Given(o.checks) \/ o.checks.kind = "string") /\ o.categories.kind # "undefined"
              => o.checks.items = <<"a-check", "z-check">> /\ o.categories.items = <<"content">>
        /\ o.timeout # Undefined
              => o.checks.items = <<"a-check", "z-check">> /\ o.categories.kind = "undefined"
        /\ o.checkOptions # None <=> o.timeout # Undefined
        /\ o.checks.kind = "array" /\ o.checks.items = <<>> /\ o.categories.kind = "undefined"
              => o.continueOnError = None}

\* the options objects passed together with a null provider
NullProviderInputs ==
    {o \in OptionsInputs :
        /\ o.checks.kind # "array"
        /\ o.categories.kind = "undefined"
        /\ o.timeout = Undefined}

\* the default of checkOptions: an object without properties
EmptyObject == "{}"

\* { ...this.defaultOptions, ...options }
MergeOptions(o) ==
    [checks |-> o.checks,
     categories |-> o.categories,
     continueOnError |-> IF o.continueOnError = None THEN TRUE ELSE o.continueOnError = "true",
     timeout |-> IF o.timeout = Undefined THEN DEFAULT_TIMEOUT ELSE o.timeout,
     parallel |-> IF o.parallel = None THEN FALSE ELSE o.parallel = "true",
     checkOptions |-> IF o.checkOptions = None THEN EmptyObject ELSE o.checkOptions]

RECURSIVE CategoryChecks(_, _)
\* the loop of selectChecksToRun over options.categories
CategoryChecks(chk, cats) ==
    IF cats = <<>> THEN <<>>
    ELSE Ids(GetByCategory(chk, Head(cats))) \o CategoryChecks(chk, Tail(cats))

\* a selection that takes an empty options.checks as "select nothing"
SelectNothingForEmpty(chk, o) ==
    IF o.checks.kind = "string"
    THEN [threw |-> TRUE, ids |-> <<>>]
    ELSE IF o.checks.kind = "array"
    THEN [threw |-> FALSE,
          ids |-> SelectSeqBy(o.checks.items, {id \in Range(o.checks.items) : Has(chk, id)})]
    ELSE IF o.categories.kind = "array" /\ Len(o.categories.items) > 0
    THEN [threw |-> FALSE, ids |-> Dedup(CategoryChecks(chk, o.categories.items))]
    ELSE [threw |-> FALSE, ids |-> Ids(GetExecutionOrder(chk, FALSE, <<>>))]

\* a selection that looks at options.categories before options.checks
SelectCategoriesFirst(chk, o) ==
    IF o.categories.kind = "array" /\ Len(o.categories.items) > 0
    THEN [threw |-> FALSE, ids |-> Dedup(CategoryChecks(chk, o.categories.items))]
    ELSE IF o.checks.kind = "array" /\ Len(o.checks.items) > 0
    THEN [threw |-> FALSE,
          ids |-> SelectSeqBy(o.checks.items, {id \in Range(o.checks.items) : Has(chk, id)})]
    ELSE [threw |-> FALSE, ids |-> Ids(GetExecutionOrder(chk, FALSE, <<>>))]

\* selectChecksToRun(options): threw (a TypeError), or the ids
SelectChecksToRun(chk, o) ==
    IF o.checks.kind = "string"
    THEN [threw |-> TRUE, ids |-> <<>>]
    ELSE IF o.checks.kind = "array" /\ Len(o.checks.items) > 0
    THEN [threw |-> FALSE,
          ids |-> SelectSeqBy(o.checks.items, {id \in Range(o.checks.items) : Has(chk, id)})]
    ELSE IF o.categories.kind = "array" /\ Len(o.categories.items) > 0
    THEN [threw |-> FALSE, ids |-> Dedup(CategoryChecks(chk, o.categories.items))]
    ELSE [threw |-> FALSE, ids |-> Ids(GetExecutionOrder(chk, FALSE, <<>>))]

-----------------------------------------------------------------------------
(* HealthCheckOrchestrator: execution *)

\* the arguments runChecksSequentially and runChecksInParallel give to
\* executeWithTimeout for check id under the merged options o
ExecuteWithTimeoutArguments(id, prov, o) == <<id, prov, o.timeout>>

\* the arguments executeWithTimeout, called with args, gives to registry.execute
RegistryExecuteArguments(args) == <<args[1], args[2]>>

\* the arguments registry.execute, called with args, gives to the checkFunction
CheckFunctionArguments(args) == <<args[2]>>

\* argument k of a call; a parameter beyond the arguments given is undefined
Argument(args, k) == IF k \in DOMAIN args THEN args[k] ELSE None

\* executeWithTimeout(checkId, ...) up to the first suspension: registry.execute
\* throws for an unregistered or disabled check, and otherwise calls the plug-in
Invoke(chk, id) ==
    IF ~Has(chk, id)
    THEN [id |-> id, exec |-> "rejected", val |-> Rejected("notregistered"), plugin |-> "notinvoked"]
    ELSE IF ~Get(chk, id).enabled
    THEN [id |-> id, exec |-> "rejected", val |-> Rejected("disabled"), plugin |-> "notinvoked"]
    ELSE [id |-> id, exec |-> "pending", val |-> NoVal, plugin |-> "pending"]

\* what a plug-in's promise settles with: a value it returns, or a value it
\* throws, told apart by what reading its .message gives ("Error": a string)
PluginOutcomes ==
    {[t |-> "return", v |-> v, thrown |-> None] : v \in PluginValues}
    \cup {[t |-> "throw", v |-> CHOOSE v \in PluginValues : ~v.obj, thrown |-> "Error"]}

\* the catch clause of registry.execute: new Error("Failed to execute health
\* check '<id>': " + error.message).  kind "threw": the message of the Error
\* thrown follows; "threwundefined": the thrown value has no message and
\* "undefined" follows; "typeerror": the thrown value is null or undefined and
\* reading its message throws a TypeError out of the catch clause
WrapThrown(value) ==
    IF value = "null" THEN "typeerror"
    ELSE IF value = "Error" THEN "threw"
    ELSE "threwundefined"

\* an execute whose result is not validated
ExecuteUnvalidated(slot, outcome) ==
    IF outcome.t = "throw"
    THEN [slot EXCEPT !.exec = "rejected", !.val = Rejected(WrapThrown(outcome.thrown)),
                      !.plugin = "settled"]
    ELSE [slot EXCEPT !.exec = "fulfilled", !.val = Resolved(outcome.v.status), !.plugin = "settled"]

\* registry.execute after the plug-in settled: the result, or the Error
\* "Failed to execute health check '<id>': ..." of its catch clause
ExecuteSettled(slot, outcome) ==
    IF outcome.t = "throw"
    THEN [slot EXCEPT !.exec = "rejected", !.val = Rejected(WrapThrown(outcome.thrown)),
                      !.plugin = "settled"]
    ELSE IF ~IsValidHealthCheckResult(outcome.v)
    THEN [slot EXCEPT !.exec = "rejected", !.val = Rejected("invalid"), !.plugin = "settled"]
    ELSE [slot EXCEPT !.exec = "fulfilled", !.val = Resolved(outcome.v.status), !.plugin = "settled"]

\* the timer of executeWithTimeout fired before registry.execute settled
TimedOut(slot, timeout) ==
    [slot EXCEPT !.exec = "rejected", !.val = TimeoutError(timeout)]

\* what either execution mode records for a settled executeWithTimeout call
Record(ctx, slot) ==
    IF slot.exec = "rejected"
    THEN [results |-> MapSet(ctx.results, CreateCheckErrorResult(slot.id, slot.val)),
          failures |-> Append(ctx.failures, slot.id)]
    ELSE [results |-> MapSet(ctx.results, PluginResult(slot.id, slot.val)),
          failures |-> IF slot.val.status = "fail" THEN Append(ctx.failures, slot.id)
                       ELSE ctx.failures]

\* a break test that ignores continueOnError
StopOnAnyFailure(o, fails) == Len(fails) > 0

\* a break test that never breaks
NeverStop(o, fails) == FALSE

\* the break test at the top of the loop of runChecksSequentially
StopOnFailure(o, fails) == ~o.continueOnError /\ Len(fails) > 0

\* a loop that calls executeWithTimeout for every remaining check without
\* awaiting any
LoopWithoutAwait(chk, o, prov, q, sl, ctx) ==
    LET all == sl \o [i \in DOMAIN q |-> Invoke(chk, q[i])]
    IN IF \E i \in DOMAIN all : all[i].exec = "pending"
       THEN [pc |-> "seq", queue |-> <<>>, slots |-> all, results |-> ctx.results,
             failures |-> ctx.failures, report |-> NoReport]
       ELSE LET c == Caught(GenerateReport(ctx.results, prov), ctx.results, prov)
            IN [pc |-> c.pc, queue |-> <<>>, slots |-> all, results |-> ctx.results,
                failures |-> ctx.failures, report |-> c.report]

RECURSIVE SequentialLoop(_, _, _, _, _, _)
\* runChecksSequentially from the top of its loop, q being the checks not yet
\* visited, up to the next suspension (pc "seq": awaiting the last slot) or to
\* the end of runHealthChecks
SequentialLoop(chk, o, prov, q, sl, ctx) ==
    IF q = <<>> \/ StopOnFailure(o, ctx.failures)
    THEN LET c == Caught(GenerateReport(ctx.results, prov), ctx.results, prov)
         IN [pc |-> c.pc, queue |-> q, slots |-> sl, results |-> ctx.results,
             failures |-> ctx.failures, report |-> c.report]
    ELSE LET slot == Invoke(chk, Head(q))
         IN IF slot.exec = "pending"
            THEN [pc |-> "seq", queue |-> Tail(q), slots |-> Append(sl, slot),
                  results |-> ctx.results, failures |-> ctx.failures, report |-> NoReport]
            ELSE SequentialLoop(chk, o, prov, Tail(q), Append(sl, slot), Record(ctx, slot))

\* checkIds.map(...) of runChecksInParallel: one executeWithTimeout call per id
Dispatch(chk, ids) == [i \in DOMAIN ids |-> Invoke(chk, ids[i])]

\* reading the values of Promise.allSettled last to first
CollectReversed(sl) == [i \in DOMAIN sl |-> Len(sl) + 1 - i]

\* the order in which runChecksInParallel reads the values of
\* Promise.allSettled: that of its input
CollectOrder(sl) == [i \in DOMAIN sl |-> i]

RECURSIVE CollectUntilFailure(_, _, _)
\* a collecting loop with the break test of the sequential loop
CollectUntilFailure(sl, idx, ctx) ==
    IF idx = <<>> \/ StopOnFailure(opts, ctx.failures) THEN ctx
    ELSE CollectUntilFailure(sl, Tail(idx), Record(ctx, sl[Head(idx)]))

RECURSIVE Collect(_, _, _)
\* the loop of runChecksInParallel over the values of Promise.allSettled
Collect(sl, idx, ctx) ==
    IF idx = <<>> THEN ctx
    ELSE Collect(sl, Tail(idx), Record(ctx, sl[Head(idx)]))

\* some call has settled while a call dispatched before it is pending
SettledBeforeEarlier(sl) ==
    \E i, j \in DOMAIN sl : i < j /\ sl[i].exec = "pending" /\ sl[j].exec # "pending"

\* runChecksInParallel after the dispatch, once a promise settled: suspended at
\* Promise.allSettled (pc "par") while one is pending, and otherwise to the end
\* of runHealthChecks
ParallelJoin(prov, sl) ==
    IF \E i \in DOMAIN sl : sl[i].exec = "pending"
    THEN [pc |-> "par", results |-> <<>>, failures |-> <<>>, report |-> NoReport]
    ELSE LET ctx == Collect(sl, CollectOrder(sl), [results |-> <<>>, failures |-> <<>>])
             c == Caught(GenerateReport(ctx.results, prov), ctx.results, prov)
         IN [pc |-> c.pc, results |-> ctx.results, failures |-> ctx.failures, report |-> c.report]

-----------------------------------------------------------------------------
(* The state machine *)

NoOptions ==
    [checks |-> [kind |-> "undefined", items |-> <<>>],
     categories |-> [kind |-> "undefined", items |-> <<>>],
     continueOnError |-> None, parallel |-> None, timeout |-> Undefined,
     checkOptions |-> None]

EmptyContext == [results |-> <<>>, failures |-> <<>>]

\* the check command did not end yet
NoExit == [code |-> Undefined, error |-> FALSE]

\* no second call of runHealthChecks was made
NoRun == [pc |-> "idle", slots |-> <<>>]

\* the second call at its start: a new context, and whether the first call is
\* suspended at an await
StartedRun(o, ids) ==
    [pc |-> "idle", provider |-> "stub", opts |-> o, selected |-> ids, queue |-> <<>>,
     slots |-> <<>>, results |-> <<>>, failures |-> <<>>, report |-> NoReport,
     overlapped |-> (pc \in {"seq", "par"})]

\* null, where an array is expected
Null == [ref |-> "null", items |-> <<>>]

\* let entriesCache = { entries: null, lastFetch: 0 }
EmptyCache == [entries |-> Null, lastFetch |-> 0]

\* Date.now() when the module is loaded: later than CACHE_DURATION
LoadTime == 2 * CACHE_DURATION

\* checkGitignore was not called, or its result has details without usedFallback
NoDetails == [usedFallback |-> None, requiredEntriesCount |-> Undefined, missingEntries |-> <<>>]

NotChecked == [pc |-> "idle", status |-> None]

Init ==
    /\ checks = <<>>
    /\ categories = {"general"}
    /\ autoDiscovered = FALSE
    \* every import() succeeds, or the last one (./checks/gitignore.js) throws
    /\ importFails \in {{}, {BuiltinTable[Len(BuiltinTable)].id}}
    /\ cli = NoExit
    /\ other = NoRun
    /\ entriesCache = EmptyCache
    /\ now = LoadTime
    /\ gitignore = NotChecked
    /\ thrown = None
    /\ budget = MaxSetupOps
    /\ pc = "idle"
    /\ provider = None
    /\ opts = MergeOptions(NoOptions)
    /\ selected = <<>>
    /\ queue = <<>>
    /\ slots = <<>>
    /\ results = <<>>
    /\ failures = <<>>
    /\ reordered = FALSE
    /\ report = NoReport

\* the caller may still configure the registry
Configuring == pc = "idle" /\ budget > 0

\* registry.register(m); a duplicate id throws and changes nothing
Register(m) ==
    /\ Configuring
    /\ LET r == RegisterIn(checks, categories, m)
       IN /\ checks' = r.checks
          /\ categories' = r.categories
          /\ thrown' = IF r.threw THEN "duplicate" ELSE None
    /\ budget' = budget - 1
    /\ UNCHANGED <<autoDiscovered, importFails, cli, other, gitignoreVars, runVars>>

\* registry.unregister(id)
Unregister(id) ==
    /\ Configuring
    /\ checks' = SelectSeqBy(checks, {m \in Range(checks) : m.id # id})
    /\ thrown' = None
    /\ budget' = budget - 1
    /\ UNCHANGED <<categories, autoDiscovered, importFails, cli, other, gitignoreVars, runVars>>

\* registry.setEnabled(id, enabled)
SetEnabled(id, enabled) ==
    /\ Configuring
    /\ checks' = [i \in DOMAIN checks |->
                    IF checks[i].id = id THEN [checks[i] EXCEPT !.enabled = enabled]
                    ELSE checks[i]]
    /\ thrown' = None
    /\ budget' = budget - 1
    /\ UNCHANGED <<categories, autoDiscovered, importFails, cli, other, gitignoreVars, runVars>>

\* registry.clear()
Clear ==
    /\ Configuring
    /\ checks' = <<>>
    /\ categories' = {"general"}
    /\ autoDiscovered' = FALSE
    /\ thrown' = None
    /\ budget' = budget - 1
    /\ UNCHANGED <<importFails, cli, other, gitignoreVars, runVars>>

\* registry.autoDiscover(), called by the caller
AutoDiscover ==
    /\ Configuring
    /\ LET r == AutoDiscoverIn(checks, categories, autoDiscovered, importFails)
       IN /\ checks' = r.checks
          /\ categories' = r.categories
          /\ autoDiscovered' = r.autoDiscovered
    /\ thrown' = None
    /\ budget' = budget - 1
    /\ UNCHANGED <<importFails, cli, other, gitignoreVars, runVars>>

\* runHealthChecks(p, o) up to its first suspension, or to its end
RunHealthChecks(p, o) ==
    /\ pc = "idle"
    /\ LET reg == AutoDiscoverIn(checks, categories, autoDiscovered, importFails)
           m == MergeOptions(o)
           sel == SelectChecksToRun(reg.checks, m)
       IN /\ checks' = reg.checks
          /\ categories' = reg.categories
          /\ autoDiscovered' = reg.autoDiscovered
          /\ provider' = p
          /\ opts' = m
          /\ selected' = sel.ids
          /\ IF sel.threw \/ Len(sel.ids) = 0
             THEN LET c == Caught(IF sel.threw THEN [threw |-> TRUE, report |-> NoReport]
                                  ELSE CreateEmptyReport(p), <<>>, p)
                  IN /\ pc' = c.pc
                     /\ report' = c.report
                     /\ UNCHANGED <<queue, slots, results, failures, reordered>>
             ELSE IF m.parallel
             THEN LET sl == Dispatch(reg.checks, sel.ids)
                      j == ParallelJoin(p, sl)
                  IN /\ slots' = sl
                     /\ reordered' = SettledBeforeEarlier(sl)
                     /\ pc' = j.pc
                     /\ results' = j.results
                     /\ failures' = j.failures
                     /\ report' = j.report
                     /\ UNCHANGED queue
             ELSE LET r == SequentialLoop(reg.checks, m, p,
                                          Ids(GetExecutionOrder(reg.checks, TRUE, sel.ids)),
                                          <<>>, EmptyContext)
                  IN /\ pc' = r.pc
                     /\ queue' = r.queue
                     /\ slots' = r.slots
                     /\ results' = r.results
                     /\ failures' = r.failures
                     /\ report' = r.report
                     /\ UNCHANGED reordered
    /\ thrown' = None
    /\ budget' = 0
    /\ UNCHANGED <<importFails, cli, other, gitignoreVars>>

\* slot i of the run settled as sl[i]: the continuation of the execution mode
\* that awaits it
Continue(i, sl) ==
    /\ IF pc = "seq"
       THEN \E r \in {SequentialLoop(checks, opts, provider, queue, sl,
                                     Record([results |-> results, failures |-> failures], sl[i]))} :
               /\ pc' = r.pc
               /\ queue' = r.queue
               /\ slots' = r.slots
               /\ results' = r.results
               /\ failures' = r.failures
               /\ report' = r.report
               /\ UNCHANGED reordered
       ELSE \E j \in {ParallelJoin(provider, sl)} :
               /\ slots' = sl
               /\ reordered' = (reordered \/ SettledBeforeEarlier(sl))
               /\ pc' = j.pc
               /\ results' = j.results
               /\ failures' = j.failures
               /\ report' = j.report
               /\ UNCHANGED queue
    /\ UNCHANGED <<registryVars, importFails, cli, other, gitignoreVars, thrown, budget, provider, opts, selected>>

\* the promise of the plug-in called in slot i settles before the timer fires
PluginSettles(i, outcome) ==
    /\ pc \in {"seq", "par"}
    /\ slots[i].plugin = "pending"
    /\ slots[i].exec = "pending"
    /\ Continue(i, [slots EXCEPT ![i] = ExecuteSettled(slots[i], outcome)])

\* the timer of slot i fires while registry.execute is pending
TimerFires(i) ==
    /\ i \in DOMAIN slots
    /\ pc \in {"seq", "par"}
    /\ slots[i].exec = "pending"
    /\ Continue(i, [slots EXCEPT ![i] = TimedOut(slots[i], opts.timeout)])

\* a late settlement that stores the plug-in's value as the check's result
SettlesLateAndRecords(i) ==
    /\ slots[i].plugin = "pending"
    /\ slots[i].exec # "pending"
    /\ slots' = [slots EXCEPT ![i].plugin = "settled"]
    /\ results' = MapSet(results, PluginResult(slots[i].id, Resolved("pass")))
    /\ UNCHANGED <<registryVars, importFails, cli, other, gitignoreVars, thrown, budget, pc, provider, opts, selected,
                   queue, failures, reordered, report>>

\* the promise of a plug-in settles after its slot timed out: resolve and
\* reject of the settled executeWithTimeout promise do nothing
PluginSettlesLate(i) ==
    /\ slots[i].plugin = "pending"
    /\ slots[i].exec # "pending"
    /\ slots' = [slots EXCEPT ![i].plugin = "settled"]
    /\ UNCHANGED <<registryVars, importFails, cli, other, gitignoreVars, thrown, budget, pc, provider, opts, selected,
                   queue, results, failures, reordered, report>>

Next ==
    \/ \E m \in CallerMetadata : Register(m)
    \/ \E id \in CallerIds \cup BuiltinIds : Unregister(id)
    \/ \E id \in CallerIds \cup BuiltinIds, b \in BOOLEAN : SetEnabled(id, b)
    \/ Clear
    \/ AutoDiscover
    \/ \E o \in OptionsInputs : RunHealthChecks("stub", o)
    \/ \E o \in NullProviderInputs : RunHealthChecks("null", o)
    \/ \E i \in DOMAIN slots, outcome \in PluginOutcomes : PluginSettles(i, outcome)
    \/ \E i \in DOMAIN slots : TimerFires(i)
    \/ \E i \in DOMAIN slots : PluginSettlesLate(i)

Spec == Init /\ [][Next]_vars

-----------------------------------------------------------------------------
(* Vocabulary of the properties *)

Running == pc \in {"seq", "par"}

\* runHealthChecks resolved to a Report
Returned == pc = "done"

Sequential == provider # None /\ ~opts.parallel

Parallel == provider # None /\ opts.parallel

ReportIds == Ids(report.results)

HasResult(rs, id) == \E k \in DOMAIN rs : rs[k].id = id

ResultOf(rs, id) == rs[CHOOSE k \in DOMAIN rs : rs[k].id = id]

\* the plug-in of slot i was called
Invoked(i) == slots[i].plugin # "notinvoked"

\* slot i is the last executeWithTimeout call for its check id
LastCall(i) == \A j \in DOMAIN slots : slots[j].id = slots[i].id => j <= i

\* the plug-in of slot i threw, returned a malformed value or timed out
PluginFailed(i) == slots[i].exec = "rejected" /\ slots[i].val.kind \in {"threw", "invalid", "timeout"}

\* slot i ended in a result of status fail, returned or synthesized
Failed(i) ==
    \/ slots[i].exec = "rejected"
    \/ slots[i].exec = "fulfilled" /\ slots[i].val.status = "fail"

\* the checks the run executes: the selected ids, which sequential mode passes
\* through getExecutionOrder
ExecutionList ==
    IF opts.parallel THEN selected ELSE Ids(GetExecutionOrder(checks, TRUE, selected))

EnabledIds == {m.id : m \in {x \in Range(checks) : x.enabled}}

\* the indices a slot of a run can have
SlotIndices == 1 .. (Cardinality(CallerIds) + BuiltinRows + 1)

\* a timer step: the timer of some pending call fires
TimerStep == \E i \in SlotIndices : TimerFires(i)

\* a timer is running: the enabling condition of TimerStep
TimerDue == Running /\ \E i \in DOMAIN slots : slots[i].exec = "pending"

\* The event loop runs the callback of a setTimeout that is due, and nothing
\* makes a plug-in's promise settle: the only fairness is WF_vars(TimerStep),
\* stated here with ENABLED <<TimerStep>>_vars written out as TimerDue.
FairSpec == Spec /\ ([]<>~TimerDue \/ []<><<TimerStep>>_vars)

-----------------------------------------------------------------------------
(* Failure containment *)

\* C1: with continueOnError = true, in a run that returned its Report every
\* check of the execution list was executed and has a result, whatever the
\* other checks did, and a check whose plug-in threw, returned a malformed
\* value or timed out has a result of status fail synthesized by the
\* orchestrator (for an id executed more than once, the last call counts).
C1_FailureNeverAbortsRun ==
    (Returned /\ report.kind = "normal" /\ opts.continueOnError) =>
        /\ Ids(slots) = ExecutionList
        /\ \A i \in DOMAIN slots :
              /\ HasResult(report.results, slots[i].id)
              /\ (slots[i].exec = "pending") = FALSE
              /\ (LastCall(i) /\ PluginFailed(i)) =>
                    /\ ResultOf(report.results, slots[i].id).status = "fail"
                    /\ ResultOf(report.results, slots[i].id).executionError

\* a returned run of three checks whose first threw or returned a malformed
\* value, whose second timed out and whose third passed
C1_Witness ==
    /\ Returned /\ report.kind = "normal" /\ opts.continueOnError
    /\ Len(slots) = 3
    /\ slots[1].val.kind \in {"threw", "invalid"}
    /\ slots[2].val.kind = "timeout"
    /\ slots[3].exec = "fulfilled" /\ slots[3].val.status = "pass"
    /\ Len(report.results) = 3

\* C2 (as stated): runHealthChecks never rejects.
C2_NeverRejects == pc # "rejected"

\* C3: a call whose timer fired is rejected with the message that names the
\* run's timeout and is recorded as a result of status fail carrying that
\* message (sequential mode records it at once, parallel mode when every call
\* has settled); a run that has ended has recorded every call it made; and a
\* running run eventually ends, even when no plug-in ever settles.
C3_TimeoutsBoundTheRun ==
    /\ [](\A i \in DOMAIN slots :
            /\ slots[i].val.kind = "timeout" =>
                  /\ slots[i].exec = "rejected"
                  /\ slots[i].val.ms = opts.timeout
                  /\ (LastCall(i) /\ pc # "par") =>
                        /\ HasResult(results, slots[i].id)
                        /\ ResultOf(results, slots[i].id).status = "fail"
                        /\ ResultOf(results, slots[i].id).kind = "timeout"
                        /\ ResultOf(results, slots[i].id).ms = opts.timeout
                        /\ Returned => ResultOf(report.results, slots[i].id)
                                          = ResultOf(results, slots[i].id)
            /\ ~Running => HasResult(results, slots[i].id))
    /\ Running ~> ~Running

\* a run with timeout 50 returned a Report with a timed-out result while the
\* plug-in has still not settled
C3_Witness ==
    /\ Returned
    /\ opts.timeout = 50
    /\ \E i \in DOMAIN slots :
          /\ slots[i].plugin = "pending"
          /\ slots[i].val.kind = "timeout"
          /\ HasResult(report.results, slots[i].id)
          /\ ResultOf(report.results, slots[i].id).ms = 50

\* C4: in sequential mode with continueOnError = false the calls made are a
\* prefix of the execution order, only the last of them can have failed, the
\* prefix is the whole order unless its last call failed, and the Report holds
\* results for exactly the checks called: none for a later check.
C4_StopsAtFirstFailure ==
    (Sequential /\ ~opts.continueOnError) =>
        /\ Len(slots) <= Len(ExecutionList)
        /\ Ids(slots) = SubSeq(ExecutionList, 1, Len(slots))
        /\ \A i \in DOMAIN slots : i < Len(slots) => ~Failed(i)
        /\ (Returned /\ report.kind = "normal") =>
              /\ Len(slots) < Len(ExecutionList) => Failed(Len(slots))
              /\ ReportIds = Dedup(Ids(slots))
              /\ \A k \in DOMAIN report.results : report.results[k].status # "skip"
                    \/ report.results[k].kind = "plugin"

\* a returned run whose second check failed and whose third was never called
C4_Witness ==
    /\ Sequential /\ ~opts.continueOnError /\ Returned
    /\ Len(ExecutionList) = 3
    /\ Len(slots) = 2
    /\ slots[1].exec = "fulfilled" /\ slots[1].val.status = "pass"
    /\ Failed(2)
    /\ Len(report.results) = 2

\* C5 (as stated): in sequential mode at most one plug-in of the run has been
\* called and not settled.
C5_OnePluginInProgress ==
    Sequential => Cardinality({i \in DOMAIN slots : slots[i].plugin = "pending"}) <= 1

\* C5 (amended): in sequential mode only the last call can be awaited, every
\* earlier call is recorded, and a plug-in of an earlier call that is still in
\* progress is one whose call timed out.
C5_OneCallAwaited ==
    Sequential =>
        \A i \in DOMAIN slots : i < Len(slots) =>
            /\ slots[i].exec # "pending"
            /\ HasResult(results, slots[i].id)
            /\ slots[i].plugin = "pending" => slots[i].val.kind = "timeout"

\* the plug-in of a timed-out call is in progress while the next check's
\* plug-in is
C5_Witness ==
    /\ Sequential
    /\ \E i, j \in DOMAIN slots :
          /\ i < j
          /\ slots[i].plugin = "pending" /\ slots[i].val.kind = "timeout"
          /\ slots[j].plugin = "pending" /\ slots[j].exec = "pending"

\* C6: in parallel mode one call is made per selected id whatever
\* continueOnError is, the plug-in of every selected enabled check is called,
\* and the returned Report has a result for every selected id and for no other.
C6_ParallelRunsEverything ==
    Parallel =>
        /\ Ids(slots) = selected
        /\ \A i \in DOMAIN slots : slots[i].id \in EnabledIds => Invoked(i)
        /\ (Returned /\ report.kind = "normal") =>
              /\ {report.results[k].id : k \in DOMAIN report.results} = Range(selected)
              /\ \A i \in DOMAIN slots : LastCall(i) =>
                    ResultOf(report.results, slots[i].id).status
                        = IF slots[i].exec = "fulfilled" THEN slots[i].val.status ELSE "fail"

\* a parallel run with continueOnError = false returned both results though
\* the second check failed before the first passed
C6_Witness ==
    /\ Parallel /\ ~opts.continueOnError /\ Returned /\ reordered
    /\ Len(report.results) >= 2
    /\ report.results[1].status = "pass"
    /\ report.results[2].status = "fail"
    /\ report.summary.hasErrors

\* C7: in parallel mode the ids of the Report's results are the selected ids
\* in dispatch order (an id selected twice stands at its first place),
\* whatever the order in which the calls settled.
C7_ResultsInDispatchOrder ==
    (Parallel /\ Returned /\ report.kind = "normal") => ReportIds = Dedup(selected)

\* a returned parallel run of at least two checks in which a later call
\* settled before an earlier one
C7_Witness ==
    /\ Parallel /\ Returned /\ reordered
    /\ Len(report.results) >= 2
    /\ ReportIds = selected
    /\ \E i \in DOMAIN slots : slots[i].val.kind = "timeout"

\* a run that was given options.checks = []
EmptyChecksGiven ==
    provider = "stub" /\ opts.checks.kind = "array" /\ opts.checks.items = <<>>

\* C8 (as stated): a run given checks = [] calls no check and returns a Report
\* without results.
C8_EmptyListRunsNothing ==
    EmptyChecksGiven =>
        /\ slots = <<>>
        /\ Returned
        /\ report.results = <<>>
        /\ report.summary.total = 0

\* C8 (amended): a run given checks = [] selects as if options.checks were
\* absent: by options.categories when given and else every enabled check;
\* it runs the enabled selected checks as any other run does (all of them
\* when continueOnError = true), so its Report has total 0 only when no
\* selected check is enabled.
C8_EmptyListMeansUnspecified ==
    EmptyChecksGiven =>
        /\ Range(selected) =
              IF Given(opts.categories)
              THEN {m.id : m \in {x \in Range(checks) : x.category \in Range(opts.categories.items)}}
              ELSE EnabledIds
        /\ (Range(selected) \cap EnabledIds # {}) => slots # <<>>
        /\ Returned =>
              /\ report.error = None
              /\ opts.continueOnError =>
                    \A id \in Range(selected) \cap EnabledIds : HasResult(report.results, id)
              /\ report.summary.total = 0 => Range(selected) \cap EnabledIds = {}

\* a run given checks = [] returned results of checks it ran
C8_Witness ==
    /\ EmptyChecksGiven /\ Returned
    /\ report.summary.total >= 2
    /\ \E i \in DOMAIN slots : slots[i].plugin = "settled"

\* a run with default options on a registry holding both caller checks, one
\* plug-in resolving to a pass and the other throwing
TwoCallerChecksRun ==
    /\ Returned
    /\ provider = "stub"
    /\ opts = MergeOptions(NoOptions)
    /\ CallerIds \subseteq EnabledIds
    /\ \E i, j \in DOMAIN slots :
          /\ slots[i].id \in CallerIds /\ slots[j].id \in CallerIds /\ slots[i].id # slots[j].id
          /\ slots[i].exec = "fulfilled" /\ slots[i].val.status = "pass"
          /\ slots[j].exec = "rejected" /\ slots[j].val.kind = "threw"

\* C9 (as stated): the Report of such a run has two results.
C9_TwoResults ==
    TwoCallerChecksRun =>
        /\ Len(report.results) = 2
        /\ report.summary.passed = 1
        /\ report.summary.failed = 1
        /\ report.summary.hasErrors

\* C9 (amended): the Report of such a run holds the pass of the one caller
\* check, the fail synthesized from the throw of the other, and hasErrors; it
\* also holds a result for every enabled built-in check, which runHealthChecks
\* registers itself unless a module fails to load, so that results.length is
\* 2 plus the number of enabled built-in checks.
C9_TwoResultsAndBuiltins ==
    TwoCallerChecksRun =>
        /\ \E id \in CallerIds :
              /\ ResultOf(report.results, id).status = "pass"
              /\ ~ResultOf(report.results, id).executionError
        /\ \E id \in CallerIds :
              /\ ResultOf(report.results, id).status = "fail"
              /\ ResultOf(report.results, id).executionError
              /\ ResultOf(report.results, id).kind = "threw"
        /\ report.summary.hasErrors
        /\ Len(report.results) = 2 + Cardinality(EnabledIds \cap BuiltinIds)
        /\ importFails = {} => BuiltinIds \subseteq {m.id : m \in Range(checks)}
        /\ importFails # {} => Len(report.results) = 2

\* such a run on a registry the caller put nothing else in, with a result for
\* a built-in check
C9_Witness ==
    /\ TwoCallerChecksRun
    /\ Len(report.results) = 3
    /\ report.summary.passed = 2
    /\ report.summary.failed = 1

\* C10: every result of a returned Report, and every result recorded during a
\* run, has one of the four statuses.
C10_StatusEnumerated ==
    /\ \A k \in DOMAIN results : results[k].status \in HEALTH_CHECK_STATUSES
    /\ Returned => \A k \in DOMAIN report.results :
                      report.results[k].status \in HEALTH_CHECK_STATUSES

\* a Report with a result a plug-in returned and a result synthesized for a
\* plug-in that returned a status outside the four
C10_Witness ==
    /\ Returned
    /\ \E k \in DOMAIN report.results : report.results[k].kind = "plugin"
    /\ \E k \in DOMAIN report.results :
          report.results[k].kind = "invalid" /\ report.results[k].status = "fail"

-----------------------------------------------------------------------------
(* Summary and registry contracts *)

\* the number of results of the returned Report with the given status
Reported(status) ==
    Cardinality({k \in DOMAIN report.results : report.results[k].status = status})

\* C11: in every returned Report, of whichever kind, summary.total is the
\* number of results and the sum of the four counters, each counter is the
\* number of results of its status, hasErrors holds exactly when failed > 0
\* and hasWarnings exactly when warnings > 0.
C11_SummaryConsistent ==
    Returned =>
        /\ report.summary.total = Len(report.results)
        /\ report.summary.total = report.summary.passed + report.summary.failed
                                  + report.summary.warnings + report.summary.skipped
        /\ report.summary.passed = Reported("pass")
        /\ report.summary.failed = Reported("fail")
        /\ report.summary.warnings = Reported("warn")
        /\ report.summary.skipped = Reported("skip")
        /\ report.summary.hasErrors = (report.summary.failed > 0)
        /\ report.summary.hasWarnings = (report.summary.warnings > 0)

\* a Report of three results without a failure: a pass, a warning and a skip
C11_Witness ==
    /\ Returned /\ report.kind = "normal"
    /\ report.summary.total = 3
    /\ report.summary.passed = 1
    /\ report.summary.warnings = 1
    /\ report.summary.skipped = 1
    /\ ~report.summary.hasErrors

-----------------------------------------------------------------------------
(* The registry used directly: register, unregister, setEnabled, clear,     *)
(* autoDiscover and execute called by a client, without a run.  slots holds *)
(* the one registry.execute call in flight or settled.                      *)

\* metadata the client registers: that of CallerMetadata, and other metadata
\* under the first id, disabled and with another function, category and priority
RegistryMetadata ==
    CallerMetadata \cup
    {[id |-> "a-check", category |-> "content", priority |-> 5,
      fn |-> "checkOther", dependencies |-> {}, enabled |-> "false"]}

\* what the plug-in called by a direct execute settles with: also thrown
\* values that are not Errors
RegistryOutcomes ==
    PluginOutcomes \cup
    {[t |-> "throw", v |-> CHOOSE v \in PluginValues : ~v.obj, thrown |-> x] :
        x \in {"string", "null"}}

\* the ids a client passes to execute
ExecuteIds == CallerIds \cup BuiltinIds \cup {"ghost"}

\* registry.execute(id, provider) up to the await of the plug-in
Execute(id) ==
    /\ pc = "idle"
    /\ \A i \in DOMAIN slots : slots[i].exec # "pending"
    /\ slots' = <<Invoke(checks, id)>>
    /\ thrown' = None
    /\ budget' = 0
    /\ UNCHANGED <<registryVars, importFails, cli, other, gitignoreVars, pc, provider, opts, selected, queue,
                   results, failures, reordered, report>>

\* the plug-in called by execute settles: the rest of execute
ExecuteSettles(outcome) ==
    /\ pc = "idle"
    /\ slots # <<>>
    /\ slots[1].exec = "pending"
    /\ slots' = <<ExecuteSettled(slots[1], outcome)>>
    /\ UNCHANGED <<registryVars, importFails, cli, other, gitignoreVars, thrown, budget, pc, provider, opts, selected,
                   queue, results, failures, reordered, report>>

RegistryNext ==
    \/ \E m \in RegistryMetadata : Register(m)
    \/ \E id \in CallerIds \cup BuiltinIds : Unregister(id)
    \/ \E id \in CallerIds \cup BuiltinIds, b \in BOOLEAN : SetEnabled(id, b)
    \/ Clear
    \/ AutoDiscover
    \/ \E id \in ExecuteIds : Execute(id)
    \/ \E outcome \in RegistryOutcomes : ExecuteSettles(outcome)

RegistrySpec == Init /\ [][RegistryNext]_vars

\* a returned value that isValidHealthCheckResult accepts
WellFormed(v) ==
    /\ v.obj /\ v.fields /\ v.timestampOk /\ v.detailsOk
    /\ v.status \in HEALTH_CHECK_STATUSES

RequestedInputs ==
    {[given |-> FALSE, ids |-> <<>>],
     [given |-> TRUE, ids |-> <<>>],
     [given |-> TRUE, ids |-> <<"z-check", "a-check">>],
     [given |-> TRUE, ids |-> <<"ghost", "z-check", "package-json">>],
     [given |-> TRUE, ids |-> <<"a-check", "z-check", "a-check">>]}

\* the number of times x occurs in sequence s
Occurrences(s, x) == Cardinality({i \in DOMAIN s : s[i] = x})

\* the registries that hold the checks of chk registered in another order
Reorderings(chk) ==
    {p \in [DOMAIN chk -> Range(chk)] : Range(p) = Range(chk)}

\* C13: for every registry and every argument, getExecutionOrder returns the
\* enabled registered checks (those of requestedIds when given, each as often
\* as it is requested, unregistered ids dropped), a check of lower priority
\* before one of higher priority whatever their ids and checks of equal
\* priority by ascending id; and it returns the same for every order in which
\* the same checks were registered.
C13_ExecutionOrderSorted ==
    \A q \in RequestedInputs :
        LET r == GetExecutionOrder(checks, q.given, q.ids)
        IN /\ \A k \in DOMAIN r : r[k] \in Range(checks) /\ r[k].enabled
           /\ \A m \in Range(checks) :
                 Occurrences(r, m) = IF ~m.enabled THEN 0
                                     ELSE IF q.given THEN Occurrences(q.ids, m.id)
                                     ELSE 1
           /\ \A i, j \in DOMAIN r : i < j =>
                 \/ r[i].priority < r[j].priority
                 \/ r[i].priority = r[j].priority /\ Rank(r[i].id) <= Rank(r[j].id)
           /\ \A p \in Reorderings(checks) : GetExecutionOrder(p, q.given, q.ids) = r

\* a registry of two enabled checks of equal priority, registered in
\* descending order of id
C13_Witness ==
    /\ pc = "idle"
    /\ Len(checks) = 2
    /\ checks[1].enabled /\ checks[2].enabled
    /\ checks[1].priority = checks[2].priority
    /\ Rank(checks[1].id) > Rank(checks[2].id)
    /\ Ids(GetExecutionOrder(checks, FALSE, <<>>)) = <<checks[2].id, checks[1].id>>

\* C14 (as stated): a check never precedes a check listed in its dependencies,
\* neither in the order getExecutionOrder returns nor in the order in which a
\* sequential run calls the plug-ins.
C14_DependenciesRespected ==
    /\ LET r == GetExecutionOrder(checks, FALSE, <<>>)
       IN \A i, j \in DOMAIN r : i < j => r[j].id \notin r[i].dependencies
    /\ Sequential =>
          \A i, j \in DOMAIN slots :
              (i < j /\ Has(checks, slots[i].id)) =>
                  slots[j].id \notin Get(checks, slots[i].id).dependencies

\* C15: a register() call with an id that is present throws the duplicate-id
\* error and changes neither the registered checks, the metadata first
\* registered under the id included, nor the category set nor the discovery
\* flag, whatever metadata it was given.
C15_DuplicateRegisterRejected ==
    [][\A m \in RegistryMetadata :
          (Register(m) /\ Has(checks, m.id)) =>
              /\ thrown' = "duplicate"
              /\ checks' = checks
              /\ categories' = categories
              /\ autoDiscovered' = autoDiscovered]_vars

\* a register() call threw the duplicate-id error and the registry holds the
\* one check first registered, with the metadata it was registered with
C15_Witness ==
    /\ thrown = "duplicate"
    /\ Len(checks) = 1
    /\ checks[1] = [id |-> "a-check", fn |-> "checkA", category |-> "general",
                    priority |-> DEFAULT_PRIORITY, dependencies |-> {}, enabled |-> TRUE]
    /\ categories = {"general"}

-----------------------------------------------------------------------------
(* Discovery *)

\* C16: when one built-in module fails to load during autoDiscover, only that
\* module is skipped: after a first autoDiscover every built-in whose module
\* loads is registered.
C16_OnlyFailedModuleSkipped ==
    [][(AutoDiscover /\ ~autoDiscovered)
          => \A id \in BuiltinIds \ importFails : Has(checks', id)]_vars

\* a client call that runs autoDiscover: directly, or as runHealthChecks' first step
CallsAutoDiscover ==
    \/ AutoDiscover
    \/ \E o \in OptionsInputs : RunHealthChecks("stub", o)
    \/ \E o \in NullProviderInputs : RunHealthChecks("null", o)

\* C17: autoDiscover is idempotent: no id is ever registered twice; calling
\* autoDiscover twice in a row gives the registry one call gives; and once a
\* discovery completed, a later call, direct or through runHealthChecks,
\* leaves the registered metadata, their order, the categories and the flag
\* exactly as they were (stated as: a step that changes any of them then is
\* not such a call).
C17_AutoDiscoverIdempotent ==
    /\ [](\A i, j \in DOMAIN checks : checks[i].id = checks[j].id => i = j)
    /\ [](LET once == AutoDiscoverIn(checks, categories, autoDiscovered, importFails)
          IN AutoDiscoverIn(once.checks, once.categories, once.autoDiscovered, importFails) = once)
    /\ [][(autoDiscovered /\ ~UNCHANGED registryVars) => ~CallsAutoDiscover]_vars

\* a discovery completed, the caller then unregistered a built-in, and a later
\* runHealthChecks, whose first step is autoDiscover, did not register it again
C17_Witness ==
    /\ importFails = {}
    /\ autoDiscovered
    /\ pc = "done"
    /\ ~Has(checks, BuiltinTable[1].id)

-----------------------------------------------------------------------------
(* Plug-in calls and the top-level error *)

\* the arguments the plug-in of slot i was called with
PluginArguments(i) ==
    CheckFunctionArguments(
        RegistryExecuteArguments(
            ExecuteWithTimeoutArguments(slots[i].id, provider, opts)))

\* C18: every plug-in the orchestrator invokes is called with the provider
\* and, when the caller gave checkOptions to runHealthChecks, with those
\* checkOptions as its second argument.
C18_CheckOptionsPassed ==
    \A i \in DOMAIN slots :
        Invoked(i) /\ provider # None
            => /\ Argument(PluginArguments(i), 1) = provider
               /\ opts.checkOptions # EmptyObject
                     => Argument(PluginArguments(i), 2) = opts.checkOptions

\* C19: a returned Report carries the top-level error field only if the
\* orchestration itself threw (here: selectChecksToRun, before any check was
\* called); a run that called checks returns a Report without it, whatever the
\* checks did (throw, timeout, malformed return), in either execution mode.
C19_ErrorOnlyFromOrchestration ==
    Returned =>
        /\ report.error # None <=> report.kind = "error"
        /\ report.error # None => SelectChecksToRun(checks, opts).threw /\ slots = <<>>
        /\ slots # <<>> => report.error = None

\* a run returned a Report without the error field although one of its checks
\* threw or returned a malformed value and another timed out
C19_Witness ==
    /\ Returned
    /\ report.error = None
    /\ \E i, j \in DOMAIN slots :
          /\ slots[i].exec = "rejected" /\ slots[i].val.kind \in {"threw", "invalid"}
          /\ slots[j].exec = "rejected" /\ slots[j].val.kind = "timeout"

-----------------------------------------------------------------------------
(* calculateSummary used directly: results is the array given, and          *)
(* report.summary the summary returned.                                     *)

NonPassStatuses == <<"fail", "warn", "skip">>

\* an array of total results of which passed have status pass, at its head or
\* at its tail; the others take the other statuses in turn
ResultArray(passed, total, passesFirst) ==
    [i \in 1..total |->
        PluginResult("a-check",
            Resolved(IF (passesFirst /\ i <= passed) \/ (~passesFirst /\ i > total - passed)
                     THEN "pass"
                     ELSE NonPassStatuses[(i % 3) + 1]))]

SummaryInputs ==
    UNION {{ResultArray(passed, total, passesFirst) :
                passed \in 0..total, passesFirst \in BOOLEAN} : total \in 0..MaxResults}

SummaryInit ==
    /\ checks = <<>>
    /\ categories = {"general"}
    /\ autoDiscovered = FALSE
    /\ importFails = {}
    /\ cli = NoExit
    /\ other = NoRun
    /\ entriesCache = EmptyCache
    /\ now = LoadTime
    /\ gitignore = NotChecked
    /\ thrown = None
    /\ budget = 0
    /\ pc = "idle"
    /\ provider = None
    /\ opts = MergeOptions(NoOptions)
    /\ selected = <<>>
    /\ queue = <<>>
    /\ slots = <<>>
    /\ results \in SummaryInputs
    /\ failures = <<>>
    /\ reordered = FALSE
    /\ report = NoReport

\* calculateSummary(results)
CalculateSummaryCall ==
    /\ report = NoReport
    /\ report' = [NoReport EXCEPT !.summary = CalculateSummary(results)]
    /\ UNCHANGED <<registryVars, importFails, cli, other, gitignoreVars, thrown, budget, pc, provider, opts, selected,
                   queue, slots, results, failures, reordered>>

SummaryNext == CalculateSummaryCall

SummarySpec == SummaryInit /\ [][SummaryNext]_vars

\* C20: for every array of results, the score of its summary is the integer
\* nearest to the percentage 100 * passed / total, a half rounded up: an
\* integer in 0..100, and 0 when the array is empty.
C20_ScoreIsRoundedPercentage ==
    report.summary.total = Len(results) =>
        LET passed == CountStatus(results, "pass")
            total == Len(results)
            score == report.summary.score
        IN /\ score \in 0..100
           /\ total = 0 => score = 0
           /\ total > 0 => /\ 2 * total * score <= 200 * passed + total
                           /\ 200 * passed + total < 2 * total * (score + 1)

-----------------------------------------------------------------------------
(* The check command of the CLI: runHealthChecks(provider, { checks }) on   *)
(* the provider of the target, then the output, then the exit code.         *)

\* { checks } as the command builds it from --checks: undefined without the
\* option, and otherwise the non-empty array split(',') gives
CliOptionsInputs ==
    {[NoOptions EXCEPT !.checks = c] :
        c \in {x \in ChecksInputs :
                  x.kind = "undefined" \/ (x.kind = "array" /\ x.items # <<>>)}}

\* an exit code that looks at the warnings first
ExitCodeWarningsFirst(summary) ==
    IF summary.hasWarnings THEN 2
    ELSE IF summary.hasErrors THEN 1
    ELSE 0

\* the exit code for a Report: process.exit(1), process.exit(2), or the
\* action returns and the process ends with code 0
ExitCode(summary) ==
    IF summary.hasErrors THEN 1
    ELSE IF summary.hasWarnings THEN 2
    ELSE 0

\* the command up to the first suspension of runHealthChecks
CliCheck(o) ==
    /\ cli = NoExit
    /\ RunHealthChecks("stub", o)

\* the command after runHealthChecks settled: formatting or writing the
\* output may throw (outputFails), which the catch clause turns into exit
\* code 1, as it does a rejection of runHealthChecks
CliExit(outputFails) ==
    /\ pc \in {"done", "rejected"}
    /\ cli = NoExit
    /\ cli' = IF pc = "rejected" \/ outputFails
              THEN [code |-> 1, error |-> TRUE]
              ELSE [code |-> ExitCode(report.summary), error |-> FALSE]
    /\ UNCHANGED <<registryVars, importFails, other, gitignoreVars, thrown, budget, runVars>>

\* process.exit was called: nothing of the process runs any more
Exited == cli.code \in {1, 2}

CliNext ==
    \/ \E m \in CallerMetadata : Register(m)
    \/ \E id \in CallerIds \cup BuiltinIds : Unregister(id)
    \/ \E id \in CallerIds \cup BuiltinIds, b \in BOOLEAN : SetEnabled(id, b)
    \/ Clear
    \/ AutoDiscover
    \/ \E o \in CliOptionsInputs : CliCheck(o)
    \/ \E i \in DOMAIN slots, outcome \in PluginOutcomes : PluginSettles(i, outcome)
    \/ \E i \in DOMAIN slots : TimerFires(i)
    \/ \E i \in DOMAIN slots : ~Exited /\ PluginSettlesLate(i)
    \/ \E outputFails \in BOOLEAN : CliExit(outputFails)

CliSpec == Init /\ [][CliNext]_vars

-----------------------------------------------------------------------------
(* Timeouts, order and selection *)

\* C22: when the plug-in of a timed-out call settles later, the settlement is
\* discarded: it changes neither the recorded results and failures, nor the
\* Report, nor the outcome of the call, so the recorded result of the call
\* stays the timeout failure; and the timer does not cancel the plug-in: a
\* step that changes the state of a plug-in's promise is never a timer step.
C22_LateSettlementDiscarded ==
    /\ [][\A i \in DOMAIN slots :
            PluginSettlesLate(i) =>
                /\ results' = results /\ failures' = failures
                /\ report' = report /\ pc' = pc
                /\ slots'[i].exec = slots[i].exec /\ slots'[i].val = slots[i].val]_vars
    /\ [][\A i \in DOMAIN slots :
            slots'[i].plugin # slots[i].plugin => ~TimerFires(i)]_vars
    /\ [](\A i \in DOMAIN slots :
            (slots[i].val.kind = "timeout" /\ slots[i].plugin = "settled"
                /\ LastCall(i) /\ pc # "par")
               => /\ ResultOf(results, slots[i].id).kind = "timeout"
                  /\ ResultOf(results, slots[i].id).status = "fail"
                  /\ Returned => ResultOf(report.results, slots[i].id).kind = "timeout")

\* a run returned its Report, the plug-in of a timed-out call settled
\* afterwards, and the Report still holds the timeout failure
C22_Witness ==
    /\ Returned
    /\ \E i \in DOMAIN slots :
          /\ slots[i].val.kind = "timeout"
          /\ slots[i].plugin = "settled"
          /\ ResultOf(report.results, slots[i].id).kind = "timeout"

\* C23: in sequential mode the results of a returned Report are in registry
\* execution order: each result's check precedes the next one's by priority,
\* then id, and the ids are those of the execution order of the selected
\* checks, each once, up to the last check executed, whatever the order of
\* the ids selected.
C23_SequentialResultsInExecutionOrder ==
    (Returned /\ Sequential /\ report.kind = "normal") =>
        LET order == Dedup(Ids(GetExecutionOrder(checks, TRUE, selected)))
        IN /\ \A k \in 1..(Len(ReportIds) - 1) :
                 CompareChecks(Get(checks, ReportIds[k]), Get(checks, ReportIds[k + 1])) < 0
           /\ Len(ReportIds) <= Len(order)
           /\ ReportIds = SubSeq(order, 1, Len(ReportIds))
           /\ opts.continueOnError => ReportIds = order

\* options.checks listed a-check before z-check, and the Report has z-check,
\* of priority 10, before a-check, of priority 100
C23_Witness ==
    /\ Returned /\ Sequential
    /\ opts.checks.items = <<"a-check", "z-check">>
    /\ selected = <<"a-check", "z-check">>
    /\ ReportIds = <<"z-check", "a-check">>

\* the ids registered
RegisteredIds == {m.id : m \in Range(checks)}

\* C24: for options.checks and options.categories that are arrays or absent,
\* a non-empty options.checks selects exactly its ids that are registered, in
\* the order listed, whatever options.categories holds, and an unregistered id
\* does not fail the run; otherwise a non-empty options.categories selects
\* each check whose category is listed, once; otherwise the selection is the
\* registry execution order of the enabled registered checks.
C24_SelectionByPriority ==
    (provider # None /\ opts.checks.kind # "string") =>
        /\ Given(opts.checks) =>
              /\ Range(selected) = Range(opts.checks.items) \cap RegisteredIds
              /\ selected = SelectSeqBy(opts.checks.items, RegisteredIds)
              /\ (Returned /\ provider = "stub") => report.error = None
              /\ provider = "stub" => pc # "rejected"
        /\ (~Given(opts.checks) /\ Given(opts.categories)) =>
              /\ Range(selected) = {m.id : m \in {x \in Range(checks) :
                                        x.category \in Range(opts.categories.items)}}
              /\ \A i, j \in DOMAIN selected : selected[i] = selected[j] => i = j
        /\ (~Given(opts.checks) /\ ~Given(opts.categories)) =>
              /\ Range(selected) = EnabledIds
              /\ selected = Ids(GetExecutionOrder(checks, FALSE, <<>>))

\* a run was given options.checks together with options.categories, of which
\* no listed check is a member, and selected the two listed checks
C24_Witness ==
    /\ Returned
    /\ Given(opts.checks) /\ Given(opts.categories)
    /\ selected = <<"a-check", "z-check">>
    /\ \A id \in Range(selected) : Get(checks, id).category \notin Range(opts.categories.items)

\* C25: whenever the selection resolved to no check, runHealthChecks returned
\* the empty Report: no results, every count and the score 0, hasErrors and
\* hasWarnings false, and no plug-in was invoked.
C25_EmptySelectionGivesEmptyReport ==
    (provider # None /\ opts.checks.kind # "string" /\ selected = <<>>) =>
        /\ Returned
        /\ slots = <<>>
        /\ report.results = <<>>
        /\ report.error = None
        /\ report.summary = [total |-> 0, passed |-> 0, failed |-> 0, warnings |-> 0,
                             skipped |-> 0, score |-> 0, hasErrors |-> FALSE,
                             hasWarnings |-> FALSE]

-----------------------------------------------------------------------------
(* The two execution modes on the same registry, selection and plug-ins *)

\* how a deterministic plug-in settles, each time it is called and before
\* the timer fires: it returns a pass, returns a fail, or throws an Error
DeterministicOutcomes ==
    {x \in PluginOutcomes :
        \/ x.t = "throw"
        \/ x.t = "return" /\ IsValidHealthCheckResult(x.v) /\ x.v.status \in {"pass", "fail"}}

\* a pending executeWithTimeout call settled by the plug-ins f
Settle(slot, f) == IF slot.exec = "pending" THEN ExecuteSettled(slot, f[slot.id]) ELSE slot

RECURSIVE RunSequentially(_, _, _, _, _, _, _)
\* runChecksSequentially and generateReport with the plug-ins f: what
\* runHealthChecks ends with
RunSequentially(chk, o, prov, q, sl, ctx, f) ==
    LET r == SequentialLoop(chk, o, prov, q, sl, ctx)
    IN IF r.pc # "seq" THEN r
       ELSE LET last == Len(r.slots)
                settled == [r.slots EXCEPT ![last] = Settle(r.slots[last], f)]
            IN RunSequentially(chk, o, prov, r.queue, settled,
                               Record([results |-> r.results, failures |-> r.failures],
                                      settled[last]), f)

\* runChecksInParallel and generateReport with the plug-ins f
RunInParallel(chk, prov, ids, f) ==
    LET sl == Dispatch(chk, ids)
    IN ParallelJoin(prov, [i \in DOMAIN sl |-> Settle(sl[i], f)])

\* the Report of the run's selection in sequential mode with continueOnError
SequentialReport(f) ==
    RunSequentially(checks, [opts EXCEPT !.parallel = FALSE, !.continueOnError = TRUE],
                    provider, Ids(GetExecutionOrder(checks, TRUE, selected)), <<>>,
                    EmptyContext, f).report

\* the Report of the run's selection in parallel mode
ParallelReport(f) == RunInParallel(checks, provider, selected, f).report

\* C26: for the registry and the selection of a run and for all deterministic
\* plug-ins, the Report of sequential mode with continueOnError = true and the
\* Report of parallel mode hold results for the same check ids, with the same
\* status for each id.
C26_ModesAgree ==
    (Returned /\ provider = "stub" /\ selected # <<>>) =>
        \A f \in [Range(selected) -> DeterministicOutcomes] :
            /\ Range(Ids(SequentialReport(f).results)) = Range(Ids(ParallelReport(f).results))
            /\ \A id \in Range(Ids(SequentialReport(f).results))
                        \cap Range(Ids(ParallelReport(f).results)) :
                  ResultOf(SequentialReport(f).results, id).status
                      = ResultOf(ParallelReport(f).results, id).status

-----------------------------------------------------------------------------
(* Calls per check *)

\* C27: within one run the plug-in of each check is invoked at most once.
C27_InvokedAtMostOnce ==
    \A i, j \in DOMAIN slots :
        (Invoked(i) /\ Invoked(j) /\ slots[i].id = slots[j].id) => i = j

-----------------------------------------------------------------------------
(* Two overlapping calls of runHealthChecks on one orchestrator *)

\* the options of the two calls: a selection by ids in either execution mode,
\* with and without continueOnError
OverlapInputs ==
    {[NoOptions EXCEPT !.checks = [kind |-> "array", items |-> ids],
                       !.continueOnError = c, !.parallel = p] :
        ids \in {<<"a-check">>, <<"z-check">>, <<"a-check", "z-check">>},
        c \in {None, "false"}, p \in {None, "true"}}

\* what the plug-ins of the two calls settle with
OverlapOutcomes ==
    {x \in PluginOutcomes : x.t = "throw" \/ (IsValidHealthCheckResult(x.v) /\ x.v.status \in {"pass", "fail"})}

\* a context kept on the orchestrator: the one of the first call
SharedExecutionContext == [results |-> results, failures |-> failures]

\* createExecutionContext: a new results Map and a new failures array per call
CreateExecutionContext == EmptyContext

\* the second runHealthChecks(provider, o), made after the first call was
\* made, up to its first suspension or to its end; the registry is the one
\* the first call uses
OtherRunHealthChecks(o) ==
    /\ pc # "idle"
    /\ other.pc = "idle"
    /\ LET reg == AutoDiscoverIn(checks, categories, autoDiscovered, importFails)
           m == MergeOptions(o)
           sel == SelectChecksToRun(reg.checks, m)
           ctx == CreateExecutionContext
           start == StartedRun(m, sel.ids)
       IN /\ checks' = reg.checks
          /\ categories' = reg.categories
          /\ autoDiscovered' = reg.autoDiscovered
          /\ IF sel.threw \/ Len(sel.ids) = 0
             THEN LET c == Caught(IF sel.threw THEN [threw |-> TRUE, report |-> NoReport]
                                  ELSE CreateEmptyReport("stub"), <<>>, "stub")
                  IN other' = [start EXCEPT !.pc = c.pc, !.report = c.report]
             ELSE IF m.parallel
             THEN LET sl == Dispatch(reg.checks, sel.ids)
                      j == ParallelJoin("stub", sl)
                  IN other' = [start EXCEPT !.slots = sl, !.pc = j.pc, !.results = j.results,
                                            !.failures = j.failures, !.report = j.report]
             ELSE LET r == SequentialLoop(reg.checks, m, "stub",
                                          Ids(GetExecutionOrder(reg.checks, TRUE, sel.ids)),
                                          <<>>, ctx)
                  IN other' = [start EXCEPT !.pc = r.pc, !.queue = r.queue, !.slots = r.slots,
                                            !.results = r.results, !.failures = r.failures,
                                            !.report = r.report]
    /\ UNCHANGED <<importFails, cli, gitignoreVars, thrown, budget, runVars>>

\* slot i of the second call settled as sl[i]: the continuation of the
\* execution mode that awaits it
OtherContinue(i, sl) ==
    /\ IF other.pc = "seq"
       THEN \E r \in {SequentialLoop(checks, other.opts, other.provider, other.queue, sl,
                                     Record([results |-> other.results,
                                             failures |-> other.failures], sl[i]))} :
               other' = [other EXCEPT !.pc = r.pc, !.queue = r.queue, !.slots = r.slots,
                                      !.results = r.results, !.failures = r.failures,
                                      !.report = r.report]
       ELSE \E j \in {ParallelJoin(other.provider, sl)} :
               other' = [other EXCEPT !.slots = sl, !.pc = j.pc, !.results = j.results,
                                      !.failures = j.failures, !.report = j.report]
    /\ UNCHANGED <<registryVars, importFails, cli, gitignoreVars, thrown, budget, runVars>>

\* the promise of the plug-in called in slot i of the second call settles
\* before the timer fires
OtherPluginSettles(i, outcome) ==
    /\ other.pc \in {"seq", "par"}
    /\ other.slots[i].plugin = "pending"
    /\ other.slots[i].exec = "pending"
    /\ OtherContinue(i, [other.slots EXCEPT ![i] = ExecuteSettled(other.slots[i], outcome)])

\* the timer of slot i of the second call fires while registry.execute is pending
OtherTimerFires(i) ==
    /\ other.pc \in {"seq", "par"}
    /\ other.slots[i].exec = "pending"
    /\ OtherContinue(i, [other.slots EXCEPT ![i] = TimedOut(other.slots[i], other.opts.timeout)])

OverlapNext ==
    \/ \E m \in CallerMetadata : Register(m)
    \/ \E o \in OverlapInputs : RunHealthChecks("stub", o)
    \/ \E o \in OverlapInputs : OtherRunHealthChecks(o)
    \/ \E i \in DOMAIN slots, outcome \in OverlapOutcomes : PluginSettles(i, outcome)
    \/ \E i \in DOMAIN slots : TimerFires(i)
    \/ \E i \in DOMAIN other.slots, outcome \in OverlapOutcomes : OtherPluginSettles(i, outcome)
    \/ \E i \in DOMAIN other.slots : OtherTimerFires(i)

OverlapSpec == Init /\ [][OverlapNext]_vars

\* the results of a Report are those its own call recorded for the calls it
\* made: one per settled slot of a selected id, with the status of that slot
OwnResultsOnly(run) ==
    /\ Range(Ids(run.report.results)) \subseteq Range(run.opts.checks.items)
    /\ \A k \in DOMAIN run.report.results :
          \E i \in DOMAIN run.slots :
             /\ run.slots[i].id = run.report.results[k].id
             /\ run.slots[i].exec # "pending"
             /\ run.report.results[k].status =
                   (IF run.slots[i].exec = "rejected" THEN "fail" ELSE run.slots[i].val.status)
    /\ Range(run.failures) \subseteq Range(Ids(run.report.results))

\* a sequential call left a selected, enabled check without a result only
\* after a failure of its own with continueOnError false
StoppedByOwnFailureOnly(run) ==
    (~run.opts.parallel /\ \E id \in Range(run.selected) :
                               Get(checks, id).enabled /\ ~HasResult(run.report.results, id))
        => /\ ~run.opts.continueOnError
           /\ \E k \in DOMAIN run.report.results : run.report.results[k].status = "fail"

\* the first call, as a record of the shape of the second
FirstRun ==
    [pc |-> pc, provider |-> provider, opts |-> opts, selected |-> selected, queue |-> queue,
     slots |-> slots, results |-> results, failures |-> failures, report |-> report,
     overlapped |-> other.pc # "idle" /\ other.overlapped]

\* C28: of two calls of runHealthChecks on the same orchestrator, interleaved
\* at any await, each Report holds only the results its own call recorded
\* for the checks its own options select, and a sequential call is stopped
\* short only by a failure of its own.
C28_OverlappingRunsIndependent ==
    \A run \in {FirstRun, other} :
        run.pc = "done" => OwnResultsOnly(run) /\ StoppedByOwnFailureOnly(run)

\* the two calls overlapped; the first recorded a failure of a-check, and the
\* second, with continueOnError false, ran z-check to a pass
C28_Witness ==
    /\ pc = "done" /\ other.pc = "done"
    /\ other.overlapped
    /\ failures = <<"a-check">>
    /\ ~other.opts.continueOnError /\ ~other.opts.parallel
    /\ Ids(other.report.results) = <<"z-check">>
    /\ other.report.results[1].status = "pass"

-----------------------------------------------------------------------------
(* Categories of the registry *)

\* getCategories(): Array.from(this.categories), as a set
GetCategories == categories

-----------------------------------------------------------------------------
(* The .gitignore check.  An array is a record of the object it is (ref)   *)
(* and its elements (items), so that === between arrays compares objects.  *)
(* A text is the sequence of its lines, as content.split('\n') gives them.  *)

\* a bound of the model: the clock advances at most this many half hours
MaxTicks == 3

FALLBACK_REQUIRED_ENTRIES ==
    [ref |-> "FALLBACK_REQUIRED_ENTRIES",
     items |-> <<"node_modules", "*.log", "dist", "*.bak", "*.tmp", ".DS_Store", ".env",
                 "coverage", "build", ".history", "/.cache/">>]

\* Array.from(a): a new array with the elements of a
ArrayFrom(a) == [ref |-> "Array.from(" \o a.ref \o ")", items |-> a.items]

\* String.prototype.trim on the lines the model uses
Trim(line) ==
    CASE line = " dist " -> "dist"
      [] line = "  " -> ""
      [] line = "coverage " -> "coverage"
      [] OTHER -> line

\* replace(/^\/+|\/+$/g, '') on the lines the model uses
StripSlashes(line) ==
    CASE line = "/build/" -> "build"
      [] line = "/.cache/" -> ".cache"
      [] line = "node_modules/" -> "node_modules"
      [] line = "/src/dist" -> "src/dist"
      [] OTHER -> line

NormalizeLine(line) == StripSlashes(Trim(line))

\* split('/').pop() on the normalized lines the model uses
BaseName(line) == IF line = "src/dist" THEN "dist" ELSE line

\* isEntryPresent: some normalized line equals the normalized entry, or has
\* its base name
IsEntryPresent(requiredEntry, normalizedLines) ==
    LET normalizedRequired == NormalizeLine(requiredEntry)
    IN \E i \in DOMAIN normalizedLines :
          \/ normalizedLines[i] = normalizedRequired
          \/ BaseName(normalizedRequired) = BaseName(normalizedLines[i])

StartsWithHash(line) == line \in {"# editor files", "#dist"}

\* parseGitignoreContent: the trimmed lines that are neither empty nor comments
ParseGitignoreContent(content) ==
    LET trimmed == [i \in DOMAIN content |-> Trim(content[i])]
    IN SelectSeqBy(trimmed, {l \in Range(trimmed) : l # "" /\ ~StartsWithHash(l)})

\* what fetch(BOILERPLATE_GITIGNORE_URL) settles with: it rejects, or
\* resolves to a response that is not ok, or to one with a text
Responses ==
    {[t |-> "rejects", ok |-> FALSE, text |-> <<>>],
     [t |-> "resolves", ok |-> FALSE, text |-> <<"404: Not Found">>],
     [t |-> "resolves", ok |-> TRUE, text |-> <<"# editor files", "", "#dist">>],
     [t |-> "resolves", ok |-> TRUE, text |-> <<"# editor files", "node_modules", " dist ", "">>],
     [t |-> "resolves", ok |-> TRUE, text |-> <<"node_modules", "*.log", "/.cache/">>]}

\* the repository behind the provider: no .gitignore, or one with this text
Repositories ==
    {[exists |-> FALSE, content |-> <<>>],
     [exists |-> TRUE, content |-> <<"">>],
     [exists |-> TRUE, content |-> <<"  ", "">>],
     [exists |-> TRUE, content |-> <<"# editor files", "#dist">>],
     [exists |-> TRUE, content |-> <<"node_modules/", "/src/dist", "# editor files", "*.log">>],
     [exists |-> TRUE, content |-> <<"node_modules", "*.log", "dist", "*.bak", "*.tmp", ".DS_Store",
                                     ".env", "coverage ", "/build/", ".history", "/.cache/">>]}

\* the time passes
Tick ==
    /\ now < LoadTime + MaxTicks * (CACHE_DURATION \div 2)
    /\ now' = now + CACHE_DURATION \div 2
    /\ UNCHANGED <<registryVars, importFails, cli, other, entriesCache, gitignore, thrown, budget,
                   runVars>>

\* clearEntriesCache()
ClearEntriesCache ==
    /\ entriesCache' = EmptyCache
    /\ UNCHANGED <<registryVars, importFails, cli, other, now, gitignore, thrown, budget, runVars>>

\* entriesCache.entries && (now - entriesCache.lastFetch) < CACHE_DURATION
CacheValid(cache, time) == cache.entries # Null /\ (time - cache.lastFetch) < CACHE_DURATION

\* checkGitignore(provider) up to its first suspension: fetchRequiredEntries
\* returns the cached entries, or awaits fetch
CheckGitignore ==
    /\ gitignore.pc = "idle"
    /\ gitignore' =
          IF CacheValid(entriesCache, now)
          THEN [pc |-> "reading", started |-> now, requiredEntries |-> entriesCache.entries,
                status |-> None, details |-> NoDetails]
          ELSE [pc |-> "fetching", started |-> now, requiredEntries |-> Null,
                status |-> None, details |-> NoDetails]
    /\ UNCHANGED <<registryVars, importFails, cli, other, entriesCache, now, thrown, budget, runVars>>

\* the rest of fetchRequiredEntries once fetch settled: the parsed entries,
\* cached with the time read at its start; or, through its catch clause, the
\* cached entries, or a copy of the fallback entries
FetchSettles(response) ==
    /\ gitignore.pc = "fetching"
    /\ LET entries == [ref |-> "fetched", items |-> ParseGitignoreContent(response.text)]
           failed == response.t = "rejects" \/ ~response.ok \/ Len(entries.items) = 0
       IN IF ~failed
          THEN /\ entriesCache' = [entries |-> entries, lastFetch |-> gitignore.started]
               /\ gitignore' = [gitignore EXCEPT !.pc = "reading", !.requiredEntries = entries]
          ELSE /\ gitignore' = [gitignore EXCEPT !.pc = "reading", !.requiredEntries =
                                    IF entriesCache.entries # Null THEN entriesCache.entries
                                    ELSE ArrayFrom(FALLBACK_REQUIRED_ENTRIES)]
               /\ UNCHANGED entriesCache
    /\ UNCHANGED <<registryVars, importFails, cli, other, now, thrown, budget, runVars>>

\* usedFallback: entriesCache.entries === FALLBACK_REQUIRED_ENTRIES
UsedFallback == entriesCache.entries = FALLBACK_REQUIRED_ENTRIES

\* the rest of checkGitignore, the provider answering for repository repo
ProviderAnswers(repo) ==
    /\ gitignore.pc = "reading"
    /\ LET lines == ParseGitignoreContent(repo.content)
           normalizedLines == [i \in DOMAIN lines |-> NormalizeLine(lines[i])]
           requiredEntries == gitignore.requiredEntries
           present == {e \in Range(requiredEntries.items) : IsEntryPresent(e, normalizedLines)}
           missingEntries == SelectSeqBy(requiredEntries.items, Range(requiredEntries.items) \ present)
       IN gitignore' =
             IF ~repo.exists \/ (\A i \in DOMAIN repo.content : Trim(repo.content[i]) = "")
                \/ Len(lines) = 0
             THEN [gitignore EXCEPT !.pc = "idle", !.status = "fail"]
             ELSE [gitignore EXCEPT !.pc = "idle",
                      !.status = IF Len(missingEntries) = 0 THEN "pass" ELSE "warn",
                      !.details = [usedFallback |-> UsedFallback,
                                   requiredEntriesCount |-> Len(requiredEntries.items),
                                   missingEntries |-> missingEntries]]
    /\ UNCHANGED <<registryVars, importFails, cli, other, entriesCache, now, thrown, budget, runVars>>

GitignoreNext ==
    \/ Tick
    \/ ClearEntriesCache
    \/ CheckGitignore
    \/ \E response \in Responses : FetchSettles(response)
    \/ \E repo \in Repositories : ProviderAnswers(repo)

GitignoreSpec == Init /\ [][GitignoreNext]_vars

\* C30: the usedFallback of the details of a result is true exactly when the
\* list of required entries the file was validated against was the built-in
\* fallback list.
C30_UsedFallbackExact ==
    (gitignore.pc = "idle" /\ gitignore.status \in {"pass", "warn"}) =>
        (gitignore.details.usedFallback <=> gitignore.requiredEntries.ref = ArrayFrom(FALLBACK_REQUIRED_ENTRIES).ref)

====
